---- MODULE Spec2Model ----
(***************************************************************************)
(* A model of the lyza operator automaton (src/src/main.rs): a width x     *)
(* height field of slots, each holding an operator symbol and a per-tick   *)
(* lock, advanced by Context::process, which unlocks every slot and then   *)
(* visits the slots in row-major order, dispatching the behaviour of each  *)
(* unlocked, occupied slot.                                                *)
(*                                                                         *)
(* One process() call is modelled as ProcessBegin (unlock_all and the      *)
(* creation of the iterator), one Visit per loop iteration, and ProcessEnd *)
(* (the iterator returning None).                                          *)
(***************************************************************************)
EXTENDS Integers, FiniteSets, Sequences, TLC

\* ---------------------------------------------------------------- bounds
\* Largest number of cells (width * height) of a field, and largest width
\* or height of a field without cells.
MaxCells == 6
\* Largest number of occupied slots a seeding leaves on the field.
MaxOps == 2
\* Largest number of process() calls in a run.
MaxTicks == 2

\* Largest code point of a char handed to decode_base64.
MaxChar == 300

\* ------------------------------------------------------- program constants
\* Field::new(10, 15) in main.
MainWidth == 10
MainHeight == 15

\* The length of DECODE_TABLE.
DecodeTableLen == 256

\* ---------------------------------------------------------------- symbols
\* '\0', the empty slot.
NUL == "NUL"
\* The operators OpdefTable::default registers.
Registered == {"*", "E", "W", "N", "S", "H"}
\* A char no Opdef is registered for.
Unknown == "X"
\* Every char a seeding may store.
Symbols == Registered \cup {Unknown}

\* ------------------------------------------------------------------ codec
\* ENCODE_TABLE, the bytes of "0123456789a..zA..Z?!" (1-based here).
ENCODE_TABLE ==
    [i \in 1 .. 64 |->
        IF i <= 10 THEN 47 + i
        ELSE IF i <= 36 THEN 86 + i
        ELSE IF i <= 62 THEN 28 + i
        ELSE IF i = 63 THEN 63
        ELSE 33]

\* DECODE_TABLE as the program starts: [0; 256].
ZeroTable == [b \in 0 .. (DecodeTableLen - 1) |-> 0]

\* DECODE_TABLE after the closure of call_once: for each (i, byte) of
\* ENCODE_TABLE in order, DECODE_TABLE[byte] = i.
FilledTable ==
    [b \in 0 .. (DecodeTableLen - 1) |->
        IF \E i \in DOMAIN ENCODE_TABLE : ENCODE_TABLE[i] = b
        THEN (CHOOSE i \in DOMAIN ENCODE_TABLE :
                 /\ ENCODE_TABLE[i] = b
                 /\ \A j \in DOMAIN ENCODE_TABLE : ENCODE_TABLE[j] = b => j <= i) - 1
        ELSE 0]

\* decode_base64 after the call_once, on the table it left: DECODE_TABLE[ch
\* as usize], an index out of bounds when ch is no index of the table.
decode_base64(table, ch) ==
    IF ch >= DecodeTableLen
    THEN [panic |-> TRUE, val |-> 0]
    ELSE [panic |-> FALSE, val |-> table[ch]]

encode_base64(int) ==
    IF int >= Len(ENCODE_TABLE)
    THEN [panic |-> TRUE, val |-> 0]
    ELSE [panic |-> FALSE, val |-> ENCODE_TABLE[int + 1]]

\* The values of a u8.
U8 == 0 .. 255

\* The chars handed to decode_base64, as code points.
Chars == 0 .. MaxChar

\* ------------------------------------------------------------------ Point
Point(x, y) == [x |-> x, y |-> y]

Add(a, b) == Point(a.x + b.x, a.y + b.y)

NORTH == Point(0, -1)
SOUTH == Point(0, 1)
EAST == Point(1, 0)
WEST == Point(-1, 0)

\* ----------------------------------------------------------------- Matrix
\* The points of the cells Matrix::new(w, h) allocates.
Points(w, h) == {Point(x, y) : x \in 0 .. (w - 1), y \in 0 .. (h - 1)}

in_bounds(w, h, pt) == pt.x >= 0 /\ pt.y >= 0 /\ pt.x < w /\ pt.y < h

\* The iterator's position right after Matrix::indexed_iter.
indexed_iter == Point(-1, 0)

\* MatrixIterator::next from position a: the new position, whether an item
\* is yielded, and whether ref_idx indexes outside the allocated rows
\* (a panic).
MatrixIterator_next(w, h, a) ==
    LET x1 == a.x + 1
        b == IF x1 >= w THEN Point(0, a.y + 1) ELSE Point(x1, a.y)
    IN  [at |-> b,
         some |-> b.y < h /\ in_bounds(w, h, b),
         panic |-> b.y < h /\ ~in_bounds(w, h, b)]

\* for (pt, _) in indexed_iter(), continued from position a with the points
\* in acc already yielded: the points yielded in order, and whether the
\* traversal panicked.
RECURSIVE traverse_from(_, _, _, _)
traverse_from(w, h, a, acc) ==
    LET r == MatrixIterator_next(w, h, a)
    IN  IF r.panic THEN [items |-> acc, panic |-> TRUE]
        ELSE IF ~r.some THEN [items |-> acc, panic |-> FALSE]
        ELSE traverse_from(w, h, r.at, Append(acc, r.at))

\* One traversal of a w x h matrix from a new iterator.
traverse(w, h) == traverse_from(w, h, indexed_iter, <<>>)

\* ------------------------------------------------------------------- Slot
Slot(op, lk) == [operator |-> op, lock |-> lk]

DefaultSlot == Slot(NUL, FALSE)

is_clear(slot) == slot.operator = NUL

\* Field::new(w, h): every slot empty and unlocked.
NewField(w, h) == [p \in Points(w, h) |-> DefaultSlot]

\* ------------------------------------------------------------------ Field
\* Mutant of unlock_steps: only occupied slots are unlocked.
RECURSIVE unlock_steps_occupied(_, _, _, _, _)
unlock_steps_occupied(w, h, s, a, n) ==
    IF n = 0 THEN [slots |-> s, at |-> a, done |-> FALSE, panic |-> FALSE]
    ELSE LET r == MatrixIterator_next(w, h, a)
         IN  IF r.panic THEN [slots |-> s, at |-> r.at, done |-> TRUE, panic |-> TRUE]
             ELSE IF ~r.some
                  THEN [slots |-> s, at |-> r.at, done |-> TRUE, panic |-> FALSE]
                  ELSE unlock_steps_occupied(w, h,
                          IF is_clear(s[r.at]) THEN s
                          ELSE [s EXCEPT ![r.at].lock = FALSE],
                          r.at, n - 1)

\* Mutant of unlock_steps: every lock is flipped instead of lowered.
RECURSIVE unlock_steps_toggle(_, _, _, _, _)
unlock_steps_toggle(w, h, s, a, n) ==
    IF n = 0 THEN [slots |-> s, at |-> a, done |-> FALSE, panic |-> FALSE]
    ELSE LET r == MatrixIterator_next(w, h, a)
         IN  IF r.panic THEN [slots |-> s, at |-> r.at, done |-> TRUE, panic |-> TRUE]
             ELSE IF ~r.some
                  THEN [slots |-> s, at |-> r.at, done |-> TRUE, panic |-> FALSE]
                  ELSE unlock_steps_toggle(w, h,
                          [s EXCEPT ![r.at].lock = ~s[r.at].lock], r.at, n - 1)

\* The for loop of Field::unlock_all, continued from iterator position a
\* for at most n items (the recursion is cut into runs of one row's length
\* to keep its depth at width + height).
RECURSIVE unlock_steps(_, _, _, _, _)
unlock_steps(w, h, s, a, n) ==
    IF n = 0 THEN [slots |-> s, at |-> a, done |-> FALSE, panic |-> FALSE]
    ELSE \* r is what next() returns and t the slots after the set(false);
         \* each is computed once and handed on as a value.
         CHOOSE u \in
           {IF r.panic THEN [slots |-> s, at |-> r.at, done |-> TRUE, panic |-> TRUE]
            ELSE IF ~r.some
                 THEN [slots |-> s, at |-> r.at, done |-> TRUE, panic |-> FALSE]
                 ELSE CHOOSE v \in {unlock_steps(w, h, t, r.at, n - 1) :
                                      t \in {[s EXCEPT ![r.at].lock = FALSE]}} : TRUE
            : r \in {MatrixIterator_next(w, h, a)}} : TRUE

RECURSIVE unlock_from(_, _, _, _)
unlock_from(w, h, s, a) ==
    CHOOSE u \in {IF c.done THEN c ELSE unlock_from(w, h, c.slots, c.at) :
                    c \in {unlock_steps(w, h, s, a, w + 1)}} : TRUE

\* Mutant of unlock_all: the locks of the last tick are kept.
unlock_all_noop(w, h, s) == [slots |-> s, at |-> indexed_iter, done |-> TRUE, panic |-> FALSE]

unlock_all(w, h, s) == unlock_from(w, h, s, indexed_iter)

\* ------------------------------------------------------------- behaviours
\* Mutant of bang: the cleared slot is left unlocked.
bang_unlocked(s, cp) == [s EXCEPT ![cp] = Slot(NUL, s[cp].lock)]

\* Mutant of bang: the slot is locked and its operator left in place.
bang_lock_only(s, cp) == [s EXCEPT ![cp].lock = TRUE]

\* The "bang" callback.
bang(s, cp) == [s EXCEPT ![cp] = Slot(NUL, TRUE)]

\* Mutant of move_direction: the destination is not locked.
move_direction_unlocked_dest(w, h, s, cp, translate) ==
    LET next == Add(cp, translate)
        collide == IF in_bounds(w, h, next) THEN ~is_clear(s[next]) ELSE TRUE
    IN  IF collide
        THEN [s EXCEPT ![cp] = Slot("*", TRUE)]
        ELSE [s EXCEPT ![next] = Slot(s[cp].operator, s[next].lock),
                       ![cp] = Slot(NUL, TRUE)]

\* Mutant of move_direction: an occupied destination is overwritten.
move_direction_overwrite(w, h, s, cp, translate) ==
    LET next == Add(cp, translate)
    IN  IF ~in_bounds(w, h, next)
        THEN [s EXCEPT ![cp] = Slot("*", TRUE)]
        ELSE [s EXCEPT ![next] = Slot(s[cp].operator, TRUE),
                       ![cp] = Slot(NUL, TRUE)]

\* Mutant of move_direction: an operator leaving the field vanishes.
move_direction_fall_off(w, h, s, cp, translate) ==
    LET next == Add(cp, translate)
    IN  IF ~in_bounds(w, h, next)
        THEN [s EXCEPT ![cp] = Slot(NUL, TRUE)]
        ELSE IF ~is_clear(s[next])
        THEN [s EXCEPT ![cp] = Slot("*", TRUE)]
        ELSE [s EXCEPT ![next] = Slot(s[cp].operator, TRUE),
                       ![cp] = Slot(NUL, TRUE)]

\* Mutant of move_direction: a locked destination counts as a collision.
move_direction_respect_lock(w, h, s, cp, translate) ==
    LET next == Add(cp, translate)
        collide == IF in_bounds(w, h, next)
                   THEN ~is_clear(s[next]) \/ s[next].lock
                   ELSE TRUE
    IN  IF collide
        THEN [s EXCEPT ![cp] = Slot("*", TRUE)]
        ELSE [s EXCEPT ![next] = Slot(s[cp].operator, TRUE),
                       ![cp] = Slot(NUL, TRUE)]

\* Mutant of move_direction: a collision leaves a symbol no Opdef knows.
move_direction_explode_hash(w, h, s, cp, translate) ==
    LET next == Add(cp, translate)
        collide == IF in_bounds(w, h, next) THEN ~is_clear(s[next]) ELSE TRUE
    IN  IF collide
        THEN [s EXCEPT ![cp] = Slot("#", TRUE)]
        ELSE [s EXCEPT ![next] = Slot(s[cp].operator, TRUE),
                       ![cp] = Slot(NUL, TRUE)]

\* Mutant of move_direction: the origin keeps its operator after a move.
move_direction_keep_origin(w, h, s, cp, translate) ==
    LET next == Add(cp, translate)
        collide == IF in_bounds(w, h, next) THEN ~is_clear(s[next]) ELSE TRUE
    IN  IF collide
        THEN [s EXCEPT ![cp] = Slot("*", TRUE)]
        ELSE [s EXCEPT ![next] = Slot(s[cp].operator, TRUE),
                       ![cp] = Slot(s[cp].operator, TRUE)]

move_direction(w, h, s, cp, translate) ==
    LET next == Add(cp, translate)
        collide == IF in_bounds(w, h, next) THEN ~is_clear(s[next]) ELSE TRUE
    IN  IF collide
        THEN [s EXCEPT ![cp] = Slot("*", TRUE)]
        ELSE [s EXCEPT ![next] = Slot(s[cp].operator, TRUE),
                       ![cp] = Slot(NUL, TRUE)]

\* Mutant of halt: the southern slot is not locked.
halt_noop(w, h, s, cp) == s

\* The "halt" callback.
halt(w, h, s, cp) ==
    LET next == Add(cp, SOUTH)
    IN  IF in_bounds(w, h, next) THEN [s EXCEPT ![next].lock = TRUE] ELSE s

\* The points the bang callback passes to ref_slot.
bang_refs(s, cp) == {cp}

\* Mutant of move_direction_refs: the target is read before the bounds test.
move_direction_refs_unchecked(w, h, s, cp, translate) == {cp, Add(cp, translate)}

\* The points move_direction passes to ref_slot: curr_point, and next only
\* behind the bounds test (the || short-circuits; the else branch is in
\* bounds).
move_direction_refs(w, h, s, cp, translate) ==
    LET next == Add(cp, translate)
    IN  {cp} \cup (IF in_bounds(w, h, next) THEN {next} ELSE {})

\* The points the halt callback passes to ref_slot.
halt_refs(w, h, s, cp) ==
    LET next == Add(cp, SOUTH)
    IN  IF in_bounds(w, h, next) THEN {next} ELSE {}

\* The direction an operator symbol moves in.
Direction(op) ==
    CASE op = "E" -> EAST
      [] op = "W" -> WEST
      [] op = "N" -> NORTH
      [] op = "S" -> SOUTH

Directional == {"E", "W", "N", "S"}

\* (opd.callback)(self) for the Opdef registered under op.
callback(op, w, h, s, cp) ==
    CASE op = "*" -> bang(s, cp)
      [] op \in Directional -> move_direction(w, h, s, cp, Direction(op))
      [] op = "H" -> halt(w, h, s, cp)

\* The points (opd.callback)(self) passes to ref_slot.
callback_refs(op, w, h, s, cp) ==
    CASE op = "*" -> bang_refs(s, cp)
      [] op \in Directional -> move_direction_refs(w, h, s, cp, Direction(op))
      [] op = "H" -> halt_refs(w, h, s, cp)

\* Mutant of process_slot: an operator without a behaviour is skipped.
process_slot_skip_unknown(w, h, s, ct, pt) ==
    LET op == s[pt].operator
        lk == s[pt].lock
    IN  IF ~lk /\ op \in Registered
        THEN [slots |-> callback(op, w, h, s, pt), frame_ct |-> ct + 1,
              ran |-> TRUE, panic |-> FALSE]
        ELSE [slots |-> s, frame_ct |-> ct + 1, ran |-> FALSE, panic |-> FALSE]

\* Mutant of process_slot: frame_ct counts dispatches, not visits.
process_slot_count_dispatch(w, h, s, ct, pt) ==
    LET op == s[pt].operator
        lk == s[pt].lock
    IN  IF ~lk /\ op # NUL
        THEN IF op \in Registered
             THEN [slots |-> callback(op, w, h, s, pt), frame_ct |-> ct + 1,
                   ran |-> TRUE, panic |-> FALSE]
             ELSE [slots |-> s, frame_ct |-> ct, ran |-> FALSE, panic |-> TRUE]
        ELSE [slots |-> s, frame_ct |-> ct, ran |-> FALSE, panic |-> FALSE]

\* The body of the loop of Context::process at point pt, with frame_ct = ct
\* before it: the slots and frame_ct after it, whether a behaviour was
\* dispatched, and whether the lookup of the operator panicked.
process_slot(w, h, s, ct, pt) ==
    LET op == s[pt].operator
        lk == s[pt].lock
    IN  IF ~lk /\ op # NUL
        THEN IF op \in Registered
             THEN [slots |-> callback(op, w, h, s, pt), frame_ct |-> ct + 1,
                   ran |-> TRUE, panic |-> FALSE]
             ELSE [slots |-> s, frame_ct |-> ct, ran |-> FALSE, panic |-> TRUE]
        ELSE [slots |-> s, frame_ct |-> ct + 1, ran |-> FALSE, panic |-> FALSE]

\* The loop of Context::process, continued from iterator position a for at
\* most n items (cut into runs like unlock_steps).
RECURSIVE process_steps(_, _, _, _, _, _)
process_steps(w, h, s, ct, a, n) ==
    IF n = 0
    THEN [slots |-> s, frame_ct |-> ct, at |-> a, done |-> FALSE, panic |-> FALSE]
    ELSE LET r == MatrixIterator_next(w, h, a)
         IN  IF r.panic \/ ~r.some
             THEN [slots |-> s, frame_ct |-> ct, at |-> r.at, done |-> TRUE,
                   panic |-> r.panic]
             ELSE LET d == process_slot(w, h, s, ct, r.at)
                  IN  IF d.panic
                      THEN [slots |-> d.slots, frame_ct |-> d.frame_ct, at |-> r.at,
                            done |-> TRUE, panic |-> TRUE]
                      ELSE process_steps(w, h, d.slots, d.frame_ct, r.at, n - 1)

RECURSIVE process_from(_, _, _, _, _)
process_from(w, h, s, ct, a) ==
    LET c == process_steps(w, h, s, ct, a, w + 1)
    IN  IF c.done THEN c ELSE process_from(w, h, c.slots, c.frame_ct, c.at)

\* Context::process as one call: the slots and frame_ct it leaves.
process(w, h, s, ct) ==
    LET u == unlock_all(w, h, s)
    IN  IF u.panic THEN [slots |-> u.slots, frame_ct |-> ct, panic |-> TRUE]
        ELSE process_from(w, h, u.slots, ct, indexed_iter)

\* ------------------------------------------------------------------ state
VARIABLES
    width,       \* Matrix.width
    height,      \* Matrix.height
    slots,       \* Field.slots: Point -> Slot
    curr_point,  \* Context.curr_point
    frame_ct,    \* Context.frame_ct (a u32; the runs explored stay far below 2^32)
    at,          \* MatrixIterator.at of the loop in process
    pc,          \* "idle" between calls, "scan" inside process, "panicked"
    ticks,       \* history: process() calls that returned
    tick0,       \* history: slots and frame_ct when process() was last called
    dispatched,  \* history: points whose behaviour ran in this tick
    touched,     \* history: points whose lock went up in this tick
    DECODE_TABLE,       \* the static table of decode_base64
    DECODE_TABLE_INIT,  \* whether the Once of DECODE_TABLE has run
    call         \* the last codec call: function, argument and outcome

vars == <<width, height, slots, curr_point, frame_ct, at, pc,
          ticks, tick0, dispatched, touched,
          DECODE_TABLE, DECODE_TABLE_INIT, call>>

codec_vars == <<DECODE_TABLE, DECODE_TABLE_INIT, call>>

context_vars == <<width, height, slots, curr_point, frame_ct, at, pc,
                  ticks, tick0, dispatched, touched>>

Occupied(s) == {p \in DOMAIN s : s[p].operator # NUL}

\* The field sizes explored.
Sizes ==
    {wh \in (0 .. MaxCells) \X (0 .. MaxCells) : wh[1] * wh[2] <= MaxCells}

\* Context::new on Field::new(w, h).
NewContext(w, h) ==
    /\ width = w
    /\ height = h
    /\ slots = NewField(w, h)
    /\ curr_point = Point(0, 0)
    /\ frame_ct = 0
    /\ at = indexed_iter
    /\ pc = "idle"
    /\ ticks = 0
    /\ tick0 = [slots |-> NewField(w, h), frame_ct |-> 0]
    /\ dispatched = {}
    /\ touched = {}

\* The statics as the program starts.
StaticsInit ==
    /\ DECODE_TABLE = ZeroTable
    /\ DECODE_TABLE_INIT = FALSE
    /\ call = [fn |-> "none", arg |-> 0, panic |-> FALSE, val |-> 0]

Init == StaticsInit /\ \E wh \in Sizes : NewContext(wh[1], wh[2])

\* ctx.field.ref_slot(pt).operator.set(ch) for a ch of chars, before the
\* first process().
SeedFrom(chars) ==
    /\ pc = "idle"
    /\ ticks = 0
    /\ \E pt \in Points(width, height), ch \in chars :
          /\ Cardinality(Occupied(slots) \cup {pt}) <= MaxOps
          /\ slots' = [slots EXCEPT ![pt].operator = ch]
    /\ tick0' = [slots |-> slots', frame_ct |-> frame_ct]
    /\ UNCHANGED <<width, height, curr_point, frame_ct, at, pc, ticks,
                   dispatched, touched>>
    /\ UNCHANGED codec_vars

Seed == SeedFrom(Symbols)

\* Context::process up to the creation of the loop's iterator, as one of
\* at most limit calls.
BeginWithin(limit) ==
    /\ pc = "idle"
    /\ ticks < limit
    /\ UNCHANGED codec_vars
    /\ LET u == unlock_all(width, height, slots)
       IN  /\ slots' = u.slots
           /\ pc' = IF u.panic THEN "panicked" ELSE "scan"
    /\ at' = indexed_iter
    /\ tick0' = [slots |-> slots, frame_ct |-> frame_ct]
    /\ dispatched' = {}
    /\ touched' = {}
    /\ UNCHANGED <<width, height, curr_point, frame_ct, ticks>>

ProcessBegin == BeginWithin(MaxTicks)

\* One iteration of the loop of Context::process.
Visit ==
    /\ pc = "scan"
    /\ LET r == MatrixIterator_next(width, height, at)
       IN  /\ r.some \/ r.panic
           /\ at' = r.at
           /\ IF r.panic
              THEN /\ pc' = "panicked"
                   /\ UNCHANGED <<slots, curr_point, frame_ct, dispatched, touched>>
              ELSE LET d == process_slot(width, height, slots, frame_ct, r.at)
                   IN  /\ curr_point' = r.at
                       /\ slots' = d.slots
                       /\ pc' = IF d.panic THEN "panicked" ELSE "scan"
                       /\ frame_ct' = d.frame_ct
                       /\ dispatched' = IF d.ran THEN dispatched \cup {r.at}
                                        ELSE dispatched
                       /\ touched' = touched \cup
                             {p \in DOMAIN slots :
                                 ~slots[p].lock /\ d.slots[p].lock}
    /\ UNCHANGED <<width, height, ticks, tick0>>
    /\ UNCHANGED codec_vars

\* The loop's iterator returns None and process returns.
ProcessEnd ==
    /\ pc = "scan"
    /\ LET r == MatrixIterator_next(width, height, at)
       IN  ~r.some /\ ~r.panic
    /\ pc' = "idle"
    /\ at' = indexed_iter
    /\ ticks' = ticks + 1
    /\ UNCHANGED <<width, height, slots, curr_point, frame_ct, tick0,
                   dispatched, touched>>
    /\ UNCHANGED codec_vars

Next == Seed \/ ProcessBegin \/ Visit \/ ProcessEnd

Spec == Init /\ [][Next]_vars

\* ------------------------------------------------------------ main's run
\* The field main seeds before its first process() call.
MainField ==
    [p \in Points(MainWidth, MainHeight) |->
        Slot(CASE p = Point(0, 0) -> "*"
               [] p = Point(3, 3) -> "E"
               [] p = Point(3, 5) -> "E"
               [] p = Point(3, 4) -> "W"
               [] p = Point(6, 4) -> "H"
               [] OTHER -> NUL,
             FALSE)]

InitMain ==
    /\ StaticsInit
    /\ width = MainWidth
    /\ height = MainHeight
    /\ slots = MainField
    /\ curr_point = Point(0, 0)
    /\ frame_ct = 0
    /\ at = indexed_iter
    /\ pc = "idle"
    /\ ticks = 0
    /\ tick0 = [slots |-> MainField, frame_ct |-> 0]
    /\ dispatched = {}
    /\ touched = {}

NextMain == ProcessBegin \/ Visit \/ ProcessEnd

SpecMain == InitMain /\ [][NextMain]_vars

\* A call of encode_base64 with any u8; a panic ends the program.
Encode ==
    /\ ~call.panic
    /\ \E int \in U8 :
          LET e == encode_base64(int)
          IN  call' = [fn |-> "encode", arg |-> int, panic |-> e.panic, val |-> e.val]
    /\ UNCHANGED <<DECODE_TABLE, DECODE_TABLE_INIT>>
    /\ UNCHANGED context_vars

\* A call of decode_base64 with any char: the Once fills DECODE_TABLE on the
\* first call, then the table is indexed.
Decode ==
    /\ ~call.panic
    /\ DECODE_TABLE' = IF DECODE_TABLE_INIT THEN DECODE_TABLE ELSE FilledTable
    /\ DECODE_TABLE_INIT' = TRUE
    /\ \E ch \in Chars :
          LET d == decode_base64(DECODE_TABLE', ch)
          IN  call' = [fn |-> "decode", arg |-> ch, panic |-> d.panic, val |-> d.val]
    /\ UNCHANGED context_vars

NextCodec == Encode \/ Decode

SpecCodec == InitMain /\ [][NextCodec]_vars

\* A field seeded without "H", and process() called again and again: the
\* calls are counted up to a number that leaves room for an operator to
\* cross the longest field and to be cleared.
LiveTicks == MaxCells + 2

SeedNoHalt == SeedFrom(Registered \ {"H"})

ProcessBeginLive == BeginWithin(LiveTicks)

NextLive == SeedNoHalt \/ ProcessBeginLive \/ Visit \/ ProcessEnd

\* The caller keeps calling process() and every call runs on.
SpecLive ==
    /\ Init
    /\ [][NextLive]_vars
    /\ WF_vars(ProcessBeginLive \/ Visit \/ ProcessEnd)

\* ----------------------------------------------------------- properties
\* A process() call has returned; tick0 is the field it was called on.
Completed == pc = "idle" /\ ticks > 0

\* The slot the directional operator at p in field s aims at.
Target(s, p) == Add(p, Direction(s[p].operator))

\* This step is the loop iteration that dispatches the behaviour of slot p.
Dispatches(p) == pc = "scan" /\ p \notin dispatched /\ p \in dispatched'

\* q comes after a in scan (row-major) order.
After(a, q) == q.y > a.y \/ (q.y = a.y /\ q.x > a.x)

\* p held the only operator of the field when process() was called, a
\* directional one whose target is in bounds.
OnlyMover(p) ==
    /\ Occupied(tick0.slots) = {p}
    /\ tick0.slots[p].operator \in Directional
    /\ in_bounds(width, height, Target(tick0.slots, p))

\* C1: a directional operator that is alone on the field and whose target
\* is in bounds ends the tick in the target slot; origin and target are
\* locked, every other slot is empty and unlocked.
C1_MoveIntoEmpty ==
    Completed =>
        \A p \in DOMAIN slots :
            OnlyMover(p) =>
                LET t == Target(tick0.slots, p)
                IN  slots = [q \in DOMAIN slots |->
                                IF q = t THEN Slot(tick0.slots[p].operator, TRUE)
                                ELSE IF q = p THEN Slot(NUL, TRUE)
                                ELSE Slot(NUL, FALSE)]

\* A lone S, still locked from the tick before, has moved south once more.
C1_Witness ==
    /\ Completed
    /\ \E p \in DOMAIN slots :
          /\ OnlyMover(p)
          /\ tick0.slots[p] = Slot("S", TRUE)
          /\ slots[Add(p, SOUTH)].operator = "S"

\* C2: a dispatched directional operator whose in-bounds target is occupied
\* (by any symbol, locked or not) becomes '*' and locked in its own slot,
\* and the target slot keeps its operator and its lock.
C2_ObstacleCollision ==
    [][\A p \in DOMAIN slots :
          ( /\ Dispatches(p)
            /\ slots[p].operator \in Directional
            /\ in_bounds(width, height, Target(slots, p))
            /\ ~is_clear(slots[Target(slots, p)]) )
          => /\ slots'[p] = Slot("*", TRUE)
             /\ slots'[Target(slots, p)] = slots[Target(slots, p)]]_vars

\* The slot just dispatched held a directional operator and is now '*',
\* and its target holds a locked operator.
C2_Witness ==
    /\ pc = "scan"
    /\ at \in dispatched
    /\ tick0.slots[at].operator \in Directional
    /\ in_bounds(width, height, Target(tick0.slots, at))
    /\ ~is_clear(slots[Target(tick0.slots, at)])
    /\ slots[Target(tick0.slots, at)].lock
    /\ slots[at] = Slot("*", TRUE)

\* p holds a directional operator of field s that aims outside the field.
AtEdge(s, p) ==
    /\ s[p].operator \in Directional
    /\ ~in_bounds(width, height, Target(s, p))

\* C3: a directional operator dispatched while aiming outside the field is
\* replaced in place by '*' and locked, stays so to the end of the tick,
\* and its dispatch changes no other slot.
C3_BoundaryCollision ==
    /\ [](\A p \in dispatched :
            AtEdge(tick0.slots, p) => slots[p] = Slot("*", TRUE))
    /\ [][\A p \in DOMAIN slots :
            (Dispatches(p) /\ AtEdge(slots, p))
            => slots' = [slots EXCEPT ![p] = Slot("*", TRUE)]]_vars

\* On a 1-wide field an E was dispatched and the tick ended with '*' there.
C3_Witness ==
    /\ Completed
    /\ width = 1
    /\ \E p \in dispatched :
          /\ tick0.slots[p].operator = "E"
          /\ slots[p] = Slot("*", TRUE)

\* What C4 says of an H at p with Add(p, SOUTH) in bounds, at the end of
\* the tick.
HaltHolds(p) ==
    LET south == Add(p, SOUTH)
    IN  /\ slots[south].lock
        /\ slots[p].operator = "H"
        /\ (~is_clear(tick0.slots[south])
              => slots[south].operator = tick0.slots[south].operator)

\* C4 as stated: every H on the field at the start of a tick, with its
\* southern slot in bounds, has that slot locked at the end of the tick, is
\* still in place, and the southern operator is unchanged.
C4_Original ==
    Completed =>
        \A p \in DOMAIN slots :
            ( /\ tick0.slots[p].operator = "H"
              /\ in_bounds(width, height, Add(p, SOUTH)) )
            => HaltHolds(p)

\* C4, amended: the same for every H that is dispatched in the tick (an H
\* that is itself locked by an H to its north is skipped by the scan).
C4_HaltDispatched ==
    Completed =>
        \A p \in dispatched :
            ( /\ tick0.slots[p].operator = "H"
              /\ in_bounds(width, height, Add(p, SOUTH)) )
            => HaltHolds(p)

\* A dispatched H kept in place a directional operator to its south whose
\* target was in bounds and empty.
C4_Witness ==
    /\ Completed
    /\ \E p \in dispatched :
          /\ tick0.slots[p].operator = "H"
          /\ in_bounds(width, height, Add(p, SOUTH))
          /\ tick0.slots[Add(p, SOUTH)].operator \in Directional
          /\ in_bounds(width, height, Target(tick0.slots, Add(p, SOUTH)))
          /\ is_clear(tick0.slots[Target(tick0.slots, Add(p, SOUTH))])
          /\ is_clear(slots[Target(tick0.slots, Add(p, SOUTH))])
          /\ slots[Add(p, SOUTH)] = Slot(tick0.slots[Add(p, SOUTH)].operator, TRUE)

C6_LocksPerTick ==
    /\ \A p \in DOMAIN slots : slots[p].lock => p \in touched
    /\ (pc = "scan" /\ at = indexed_iter)
          => \A p \in DOMAIN slots :
                slots[p] = Slot(tick0.slots[p].operator, FALSE)

\* A slot that ended the last tick locked had its behaviour dispatched in
\* this one.
C6_Witness ==
    /\ ticks >= 1
    /\ \E p \in dispatched : tick0.slots[p].lock

\* The field C7 expects after main's first process() call.
MainAfterFirstTick ==
    [p \in Points(MainWidth, MainHeight) |->
        CASE p = Point(4, 3) -> Slot("E", TRUE)
          [] p = Point(4, 5) -> Slot("E", TRUE)
          [] p = Point(2, 4) -> Slot("W", TRUE)
          [] p = Point(6, 4) -> Slot("H", FALSE)
          [] p = Point(6, 5) -> Slot(NUL, TRUE)
          [] p = Point(0, 0) -> Slot(NUL, TRUE)
          [] p \in {Point(3, 3), Point(3, 4), Point(3, 5)} -> Slot(NUL, TRUE)
          [] OTHER -> Slot(NUL, FALSE)]

\* C7: after the first process() call of main's run the field is: E locked
\* at (4,3) and (4,5), W locked at (2,4), H at (6,4), (6,5) and (0,0) empty
\* and locked, the vacated (3,3), (3,4), (3,5) empty (and locked), and
\* every other slot empty and unlocked.
C7_MainFirstTick ==
    (pc = "idle" /\ ticks = 1) => slots = MainAfterFirstTick

\* main's first process() call has returned and its E of (3,3) is at (4,3).
C7_Witness ==
    /\ pc = "idle"
    /\ ticks = 1
    /\ width = MainWidth
    /\ tick0.slots[Point(3, 3)].operator = "E"
    /\ slots[Point(4, 3)].operator = "E"

\* The loop of process is about to visit p, which is unlocked and holds a
\* symbol without a registered behaviour.
UnknownAt(p) ==
    /\ pc = "scan"
    /\ MatrixIterator_next(width, height, at).at = p
    /\ ~slots[p].lock
    /\ slots[p].operator \notin (Registered \cup {NUL})

\* C8: visiting an unlocked slot whose symbol has no behaviour aborts
\* process() at that slot: nothing is dispatched, the call does not
\* return, and no step follows an abort.
C8_UnknownFatal ==
    [][/\ pc # "panicked"
       /\ \A p \in DOMAIN slots :
             UnknownAt(p) =>
                /\ pc' = "panicked"
                /\ curr_point' = p
                /\ slots' = slots
                /\ dispatched' = dispatched
                /\ frame_ct' = frame_ct
                /\ ticks' = ticks]_vars

\* process() aborted at an unknown operator while a registered, unlocked
\* operator later in scan order was still waiting.
C8_Witness ==
    /\ pc = "panicked"
    /\ at \in DOMAIN slots
    /\ slots[at] = Slot(Unknown, FALSE)
    /\ \E q \in DOMAIN slots :
          /\ After(at, q)
          /\ slots[q].operator \in Registered
          /\ ~slots[q].lock

\* The number of slots the running scan has visited.
Visited == IF at = indexed_iter THEN 0 ELSE at.y * width + at.x + 1

\* C9: frame_ct is width*height times the number of completed process()
\* calls, plus one for every slot the running scan has visited (dispatched
\* or skipped), and it never decreases.
C9_FramePerCell ==
    /\ [](/\ pc = "idle" => frame_ct = ticks * width * height
          /\ pc = "scan" => frame_ct = ticks * width * height + Visited)
    /\ [][frame_ct' >= frame_ct]_vars

\* Two process() calls have returned on a field with slots, and the last
\* one skipped at least one slot.
C9_Witness ==
    /\ Completed
    /\ ticks = 2
    /\ Cardinality(dispatched) > 0
    /\ Cardinality(dispatched) < width * height
    /\ frame_ct = 2 * width * height

\* Field s with every lock down.
Unlocked(s) == [p \in DOMAIN s |-> Slot(s[p].operator, FALSE)]

\* C10: what a process() call leaves (operators, locks and frame_ct;
\* whether it aborts) is a function of the width, height, the operators on
\* the field and frame_ct at the call, and of nothing else: not of the
\* locks, curr_point or iterator left by earlier calls.
C10_Deterministic ==
    LET r == process(width, height, Unlocked(tick0.slots), tick0.frame_ct)
    IN  /\ Completed => (~r.panic /\ slots = r.slots /\ frame_ct = r.frame_ct)
        /\ pc = "panicked" => (r.panic /\ slots = r.slots /\ frame_ct = r.frame_ct)

\* A second process() call returned on a field that the first had left
\* with a locked operator, which the second dispatched.
C10_Witness ==
    /\ Completed
    /\ ticks = 2
    /\ \E p \in dispatched :
          /\ tick0.slots[p].lock
          /\ tick0.slots[p].operator \in Directional
          /\ slots[p] = Slot(NUL, TRUE)

\* Every slot of field s is empty or holds a registered symbol.
AllRegistered(s) == \A p \in DOMAIN s : s[p].operator \in (Registered \cup {NUL})

\* C11: a process() call on a field whose slots hold only empty or
\* registered symbols leaves only empty or registered symbols in every
\* slot, during and after the call, and never aborts at an operator
\* without behaviour.
C11_SymbolsRegistered ==
    AllRegistered(tick0.slots) =>
        /\ AllRegistered(slots)
        /\ ~(pc = "panicked" /\ at \in DOMAIN slots)

\* A second process() call returned on a registered-only field in which a
\* directional operator exploded.
C11_Witness ==
    /\ Completed
    /\ ticks = 2
    /\ AllRegistered(tick0.slots)
    /\ \E p \in dispatched :
          /\ tick0.slots[p].operator \in Directional
          /\ slots[p] = Slot("*", TRUE)

\* C12: unlock_all applied twice leaves what unlock_all applied once
\* leaves: every slot unlocked, every operator as before the first call.
C12_UnlockIdempotent ==
    LET once == unlock_all(width, height, slots)
        twice == unlock_all(width, height, once.slots)
    IN  /\ twice.slots = once.slots
        /\ twice.panic = once.panic
        /\ \A p \in DOMAIN slots :
              once.slots[p] = Slot(slots[p].operator, FALSE)

\* Between two process() calls the field holds a locked and an unlocked
\* slot.
C12_Witness ==
    /\ Completed
    /\ \E p, q \in DOMAIN slots : slots[p].lock /\ ~slots[q].lock

\* C13: the behaviour dispatched at a slot is that of the operator the slot
\* held when process() was called (an operator that moved in during the
\* tick is never dispatched), and a directional symbol on the field is in
\* the slot it started the tick in or one step further in its direction.
C13_NoRunaway ==
    /\ [][\A p \in DOMAIN slots :
            Dispatches(p) =>
                /\ slots[p].operator = tick0.slots[p].operator
                /\ ~slots[p].lock]_vars
    /\ [](\A q \in DOMAIN slots :
            (pc # "idle" \/ ticks > 0) /\ slots[q].operator \in Directional =>
                \/ tick0.slots[q].operator = slots[q].operator
                \/ LET p == Add(q, Point(0 - Direction(slots[q].operator).x,
                                         0 - Direction(slots[q].operator).y))
                   IN  /\ in_bounds(width, height, p)
                       /\ p \in dispatched
                       /\ tick0.slots[p].operator = slots[q].operator)

\* An E moved one step and stopped although the next slot east was in
\* bounds and empty.
C13_Witness ==
    /\ Completed
    /\ \E p \in dispatched :
          /\ tick0.slots[p].operator = "E"
          /\ in_bounds(width, height, Add(p, Point(2, 0)))
          /\ slots[Add(p, EAST)] = Slot("E", TRUE)
          /\ is_clear(slots[Add(p, Point(2, 0))])
          /\ is_clear(slots[p])

\* p1 and p2 were dispatched in this tick, p1 first, both holding
\* directional operators that aim at the same in-bounds slot, and p1's
\* operator moved (the slot was empty when p1 was dispatched).
Race(p1, p2) ==
    /\ p1 \in dispatched
    /\ p2 \in dispatched
    /\ After(p1, p2)
    /\ tick0.slots[p1].operator \in Directional
    /\ tick0.slots[p2].operator \in Directional
    /\ Target(tick0.slots, p1) = Target(tick0.slots, p2)
    /\ in_bounds(width, height, Target(tick0.slots, p1))
    /\ slots[p1].operator # "*"

\* C14: of two dispatched directional operators that aim at the same slot,
\* empty when the first in scan order is dispatched, the first holds the
\* slot and the later one is '*' and locked in its own slot.
C14_ScanOrderRace ==
    \A p1, p2 \in DOMAIN slots :
        Race(p1, p2) =>
            /\ slots[Target(tick0.slots, p1)] = Slot(tick0.slots[p1].operator, TRUE)
            /\ slots[p2] = Slot("*", TRUE)

\* A tick ended after such a race.
C14_Witness ==
    /\ Completed
    /\ \E p1, p2 \in DOMAIN slots : Race(p1, p2)

\* The points of a w x h grid in row-major order.
RowMajor(w, h) ==
    [i \in 1 .. (w * h) |-> Point((i - 1) % w, (i - 1) \div w)]

\* C15 as stated: for every width >= 0 and height >= 0 a traversal ends
\* without failure and yields the width*height points of the grid, each
\* once, in row-major order.
C15_Original ==
    /\ ~traverse(width, height).panic
    /\ traverse(width, height).items = RowMajor(width, height)

\* What holds of C15: the same for every grid except those of width 0 and
\* height >= 2, and the scan of process visits the points in that order.
C15_ExceptZeroWidth ==
    /\ (width >= 1 \/ height <= 1) => C15_Original
    /\ (width = 0 /\ height >= 2) => traverse(width, height).panic
    /\ (pc = "scan" /\ at # indexed_iter) => at = RowMajor(width, height)[Visited]

\* C16: on a field with slots, every point a dispatched behaviour passes
\* to ref_slot has 0 <= x < width and 0 <= y < height.
C16_RefsInBounds ==
    [][\A p \in DOMAIN slots :
          Dispatches(p) =>
             \A q \in callback_refs(slots[p].operator, width, height, slots, p) :
                 /\ 0 <= q.x /\ q.x < width
                 /\ 0 <= q.y /\ q.y < height]_vars

\* The behaviour just dispatched is an H in the last row, its southern
\* neighbour outside the field, after a directional operator at the edge
\* was dispatched in the same tick.
C16_Witness ==
    /\ pc = "scan"
    /\ at \in dispatched
    /\ tick0.slots[at].operator = "H"
    /\ ~in_bounds(width, height, Add(at, SOUTH))
    /\ \E q \in dispatched : AtEdge(tick0.slots, q)

\* C17: no step of process() changes the operator of a slot that holds H,
\* and the dispatch of an H changes nothing but the lock of the slot to
\* its south, which it raises.
C17_HaltPermanent ==
    [][(pc # "idle" \/ pc' # "idle") =>
          \A p \in DOMAIN slots :
              slots[p].operator = "H" =>
                 /\ slots'[p].operator = "H"
                 /\ Dispatches(p) =>
                       slots' = IF in_bounds(width, height, Add(p, SOUTH))
                                THEN [slots EXCEPT ![Add(p, SOUTH)].lock = TRUE]
                                ELSE slots]_vars

\* After two ticks an H is where it was, next to the '*' of a directional
\* operator that aimed at it.
C17_Witness ==
    /\ Completed
    /\ ticks = 2
    /\ \E p \in DOMAIN slots, q \in dispatched :
          /\ tick0.slots[p].operator = "H"
          /\ slots[p].operator = "H"
          /\ tick0.slots[q].operator \in Directional
          /\ Target(tick0.slots, q) = p
          /\ slots[q] = Slot("*", TRUE)

\* C18: a loop iteration of process() never raises the number of occupied
\* slots: the dispatch of a directional operator (move or explosion) and of
\* an H keeps it, the dispatch of '*' lowers it by one and a skipped slot
\* keeps it; so a process() call never raises it.
C18_NoCreation ==
    /\ [][pc = "scan" =>
            /\ Cardinality(Occupied(slots')) <= Cardinality(Occupied(slots))
            /\ \A p \in DOMAIN slots :
                  Dispatches(p) =>
                     Cardinality(Occupied(slots')) =
                        Cardinality(Occupied(slots))
                           - (IF slots[p].operator = "*" THEN 1 ELSE 0)]_vars
    /\ [](Cardinality(Occupied(slots)) <= Cardinality(Occupied(tick0.slots)))

\* A tick ended in which one operator moved and a '*' was cleared.
C18_Witness ==
    /\ Completed
    /\ Cardinality(Occupied(slots)) + 1 = Cardinality(Occupied(tick0.slots))
    /\ \E p \in dispatched :
          /\ tick0.slots[p].operator \in Directional
          /\ in_bounds(width, height, Target(tick0.slots, p))
          /\ slots[Target(tick0.slots, p)] = Slot(tick0.slots[p].operator, TRUE)
          /\ is_clear(slots[p])

\* ------------------------------------------------------------------- C19
Movers(s) == {p \in DOMAIN s : s[p].operator \in Directional}

Bangs(s) == {p \in DOMAIN s : s[p].operator = "*"}

\* C19: on a field seeded with "*", "E", "W", "N", "S" only, repeated calls
\* of process() reach a field whose every slot is empty, and the field is
\* empty from then on; an empty field is left empty by a tick; a "*" present
\* as a tick starts is no "*" as the tick ends; and a directional operator
\* goes away only by becoming a "*".
C19_EventuallyEmpty ==
    /\ <>[](Occupied(slots) = {})
    /\ [](Completed /\ Occupied(tick0.slots) = {} => Occupied(slots) = {})
    /\ [](Completed => Bangs(tick0.slots) \cap Bangs(slots) = {})
    /\ [][pc = "scan" /\ Cardinality(Movers(slots')) < Cardinality(Movers(slots))
             => \E p \in Movers(slots) : slots'[p].operator = "*"]_vars

\* A tick, the third or a later one, that starts with an operator on the
\* field and ends with every slot empty.
C19_Witness ==
    /\ Completed
    /\ ticks >= 3
    /\ Occupied(tick0.slots) # {}
    /\ Occupied(slots) = {}
    /\ \A p \in Occupied(tick0.slots) : tick0.slots[p].operator = "*"

\* ------------------------------------------------------------------- C20
\* The chars of the 64-symbol alphabet.
Alphabet == {ENCODE_TABLE[i] : i \in DOMAIN ENCODE_TABLE}

\* C20 as stated: encode_base64 panics exactly when its value is 64 or more,
\* and decode_base64 of a char outside the alphabet, whatever its code
\* point, returns 0 and does not panic.
C20_Original ==
    /\ call.fn = "encode" => (call.panic <=> call.arg >= 64)
    /\ call.fn = "decode" /\ call.arg \notin Alphabet
          => ~call.panic /\ call.val = 0

\* What the code does: the same, for the chars that index DECODE_TABLE; a
\* char of a higher code point panics; and a char of the alphabet decodes to
\* the value that encodes to it.
C20_WithinTable ==
    /\ call.fn = "encode" => (call.panic <=> call.arg >= 64)
    /\ call.fn = "encode" /\ ~call.panic => call.val = ENCODE_TABLE[call.arg + 1]
    /\ call.fn = "decode"
          => /\ call.panic <=> call.arg >= DecodeTableLen
             /\ ~call.panic /\ call.arg \notin Alphabet => call.val = 0
             /\ ~call.panic /\ call.arg \in Alphabet
                   => ENCODE_TABLE[call.val + 1] = call.arg

\* decode_base64 was called with a char that is no index of DECODE_TABLE.
C20_OutOfTable == call.fn = "decode" /\ call.arg >= DecodeTableLen

====
